---- MODULE Spec2Model ----
(***************************************************************************)
(* Rate limiters of the repository: the configuration classes, the         *)
(* blocking leaky and token buckets and the asyncio leaky bucket with its  *)
(* lock, per-call semaphore and timeout wrapper.                           *)
(*                                                                         *)
(* Time is the reading of time.monotonic() in ticks.  Levels and amounts   *)
(* are real numbers in the code; the model stores them multiplied by the   *)
(* configured `seconds` (in ticks), so that                                *)
(*     elapsed * leak_rate = elapsed * capacity / seconds                  *)
(* is the integer elapsed * capacity in the stored unit.                   *)
(***************************************************************************)
EXTENDS Integers, Sequences, FiniteSets

\* ------------------------------------------------------------------ bounds
NTasks == 2
MaxTime == 3
MaxTimeout == 1
MaxCapacity == 2
MaxSeconds == 2
MaxConcurrent == 1
MaxRequests == 3

\* amount: float = 1, the default of capacity_info
DefaultAmount == 1
\* timeout: float | None = None
NoTimeout == 0
\* max_concurrent: int | None = None
NoMaxConcurrent == 0
\* no timeout handle / no semaphore object
NoDeadline == -1
NoSem == -1

Tasks == 1..NTasks
\* a negative amount, the amounts up to the largest capacity, one beyond it
Amounts == (-1)..(MaxCapacity + 1)
ProbeAmounts == 0..(MaxCapacity + 1)
Timeouts == 0..MaxTimeout
MaxConcurrents == 0..MaxConcurrent
\* a negative, a zero and the valid values of each configuration field
ConfigCapacities == (-1)..MaxCapacity
ConfigSeconds == {-1, 0, MaxSeconds}

ConfigClasses == {"BucketConfig", "LeakyBucketConfig", "TokenBucketConfig"}
BucketClasses == {"SyncLeakyBucket", "SyncTokenBucket", "AsyncLeakyBucket"}

Max(a, b) == IF a >= b THEN a ELSE b
Min(a, b) == IF a <= b THEN a ELSE b
\* the first tick at or after a wait of num / den ticks
CeilDiv(num, den) == (num + den - 1) \div den

VARIABLES
    now,            \* time.monotonic()
    config,         \* the configuration object, once constructed
    bucket,         \* the bucket's class and the attributes copied from the config
    bucket_level,   \* _bucket_level, times seconds
    last_leak,      \* _last_leak (_last_fill of the token bucket)
    locked,         \* asyncio.Lock._locked
    waiters,        \* asyncio.Lock._waiters, the tasks whose futures are queued
    fut,            \* the state of each task's future in the lock's queue
    pc,             \* where each caller is suspended
    amt,            \* the amount of the caller's acquire call
    deadline,       \* when the call's wait_for timeout fires
    wake_at,        \* when the caller's sleep ends
    sem,            \* the value of the semaphore the call constructed
    cancelling,     \* a cancellation requested and not yet delivered
    committed,      \* whether the caller's call in progress has added its amount
    event,          \* the acquire call the last step ended, and how
    order,          \* the suspended calls in the order they were submitted
    overtaken,      \* the callers some later-submitted call was admitted before
    script,         \* the requests a sequential caller has still to issue
    history,        \* the calls the sequential caller has completed, with their sleeps
    sleeps,         \* the delays of the sleeps the call in progress has started
    tat,            \* the cursor of the GCRA engine fed the same requests
    body,           \* the bodies of the scoped acquisitions that have run
    twin_token,     \* a SyncTokenBucket given the same calls at the same times
    twin_leaky      \* a SyncLeakyBucket given the same calls at the same times

vars == <<now, config, bucket, bucket_level, last_leak, locked, waiters, fut,
          pc, amt, deadline, wake_at, sem, cancelling, committed, event,
          order, overtaken, script, history, sleeps, tat, body,
          twin_token, twin_leaky>>

bucket_vars == <<bucket, bucket_level, last_leak>>
lock_vars == <<locked, waiters, fut>>
task_vars == <<pc, amt, deadline, wake_at, sem, cancelling, committed,
               order, overtaken>>
caller_vars == <<script, history, sleeps, tat, body, twin_token, twin_leaky>>

\* ------------------------------------------------------------ configuration
\* the sign of capacity / seconds, seconds # 0
RateSign(c, s) == IF c = 0 THEN 0 ELSE IF (c > 0) = (s > 0) THEN 1 ELSE -1

\* LeakyBucketConfig.__post_init__: the rate is computed first
LeakyBucketConfig_post_init(c, s) ==
    IF s = 0 THEN "ZeroDivisionError"
    ELSE IF RateSign(c, s) <= 0 THEN "ValueError"
    ELSE IF c < 1 THEN "ValueError"
    ELSE "none"

\* TokenBucketConfig.__post_init__
TokenBucketConfig_post_init(c, s) ==
    IF s = 0 THEN "ZeroDivisionError"
    ELSE IF RateSign(c, s) <= 0 THEN "ValueError"
    ELSE IF c < 1 THEN "ValueError"
    ELSE "none"

\* BucketConfig.__post_init__
BucketConfig_post_init(c, s) ==
    IF s <= 0 THEN "ValueError"
    ELSE IF c < 1 THEN "ValueError"
    ELSE "none"

post_init(cls, c, s) ==
    CASE cls = "LeakyBucketConfig" -> LeakyBucketConfig_post_init(c, s)
      [] cls = "TokenBucketConfig" -> TokenBucketConfig_post_init(c, s)
      [] OTHER -> BucketConfig_post_init(c, s)

NoConfig == [cls |-> "none", capacity |-> 0, seconds |-> 0, error |-> "none"]
NoBucket == [cls |-> "none", capacity |-> 0, seconds |-> 0, max_concurrent |-> 0]

\* the configuration class each bucket class is constructed from
ConfigOf(bcls) ==
    IF bcls = "SyncTokenBucket" THEN "TokenBucketConfig" ELSE "LeakyBucketConfig"

IsAsync == bucket.cls = "AsyncLeakyBucket"
IsToken == bucket.cls = "SyncTokenBucket"

\* ------------------------------------------------------------------ engines
\* amounts and the capacity in the stored unit
Scaled(x) == x * bucket.seconds
Cap == Scaled(bucket.capacity)

\* a leak of one unit for every call, whatever time has passed
leak_per_call(level, elapsed) == Max(0, level - bucket.capacity)

\* SyncLeakyBucket._leak / AsyncLeakyBucket._leak
leak(level, elapsed) == Max(0, level - elapsed * bucket.capacity)

\* a refill without the cap
fill_unbounded(level, elapsed) == level + elapsed * bucket.capacity

\* SyncTokenBucket._fill
fill(level, elapsed) == Min(Cap, level + elapsed * bucket.capacity)

Updated(level, elapsed) ==
    IF IsToken THEN fill(level, elapsed) ELSE leak(level, elapsed)

\* the token bucket's difference taken the other way round
token_needed_swapped(level, amount) == level - Scaled(amount)

\* needed of capacity_info, on the level after _leak / _fill
leaky_needed(level, amount) == level + Scaled(amount) - Cap
token_needed(level, amount) == Scaled(amount) - level

Needed(level, amount) ==
    IF IsToken THEN token_needed(level, amount) ELSE leaky_needed(level, amount)

\* a probe that denies when nothing is needed
capacity_info_strict(level, amount) ==
    [has_capacity |-> Needed(level, amount) < 0,
     needed_capacity |-> Needed(level, amount)]

\* Capacity(has_capacity=needed <= 0, needed_capacity=needed)
capacity_info(level, amount) ==
    [has_capacity |-> Needed(level, amount) <= 0,
     needed_capacity |-> Needed(level, amount)]

\* a commit of the default amount, whatever was asked for
CommitDefault(level, amount) ==
    IF IsToken THEN level - Scaled(DefaultAmount) ELSE level + Scaled(DefaultAmount)

\* self._bucket_level += amount / self._bucket_level -= amount
Commit(level, amount) ==
    IF IsToken THEN level - Scaled(amount) ELSE level + Scaled(amount)

\* a bucket that adds the amount before it sleeps
LevelCommittedBeforeWait(level, amount) == level + Scaled(amount)

\* the level a denied probe leaves: capacity_info() has leaked, nothing is added
LevelWhileWaiting(level, amount) == level

\* a wait that is the needed amount itself, not divided by the rate
WaitTicksUnscaled(needed) == needed

\* wait_time = needed / rate, in ticks: needed * seconds / capacity
WaitTicks(needed) == CeilDiv(needed, bucket.capacity)

\* a check that lets capacity + 1 through
ExceedsCapacityOffByOne(amount) == amount > bucket.capacity + 1

\* if amount > self.capacity: raise ValueError
ExceedsCapacity(amount) == amount > bucket.capacity

\* limitor.utils.validate_amount (no bucket under src/rate_limit calls it)
validate_amount(capacity, amount) ==
    IF amount > capacity THEN "ValueError"
    ELSE IF amount < 0 THEN "ValueError"
    ELSE "none"

\* ------------------------------------------------------------- asyncio.Lock
Remove(ws, t) == SelectSeq(ws, LAMBDA x : x # t)

\* a release that wakes nobody
WakeUpNobody(ws, fs) == fs

\* Lock._wake_up_first: the first queued future, if it is not done
WakeUpFirst(ws, fs) ==
    IF ws = <<>> THEN fs
    ELSE IF fs[Head(ws)] = "pending" THEN [fs EXCEPT ![Head(ws)] = "done"]
    ELSE fs

\* a lock that makes every caller queue
LockNeverFree == FALSE

\* a lock that is never held
LockIgnored == TRUE

\* a lock that a new caller takes whenever it is not held, past the queue
LockBarging == ~locked

\* Lock.acquire takes the lock without suspending
LockFree == ~locked /\ \A i \in 1..Len(waiters) : fut[waiters[i]] = "cancelled"

\* asyncio.Semaphore(self.max_concurrent) if self.max_concurrent else nullcontext(),
\* entered: the value left in the semaphore this call constructed
SemaphoreEntered ==
    IF bucket.max_concurrent # NoMaxConcurrent THEN bucket.max_concurrent - 1 ELSE NoSem

\* the record of a call that ended: its caller, its amount, what it returned or
\* raised, and whether it had added its amount to the level
Ended(t, a, how, added) ==
    [task |-> t, amount |-> a, result |-> how, committed |-> added]
NoEvent == Ended(0, 0, "none", FALSE)

\* a call whose timeout is dropped
DeadlineIgnored(start, to) == NoDeadline

\* asyncio.wait_for(..., timeout=timeout): when the timeout of a call made at
\* `start` fires; a call without a timeout has none
Deadline(start, to) == IF to = NoTimeout THEN NoDeadline ELSE start + to

\* a blocking bucket run beside the bucket under test: its level (times
\* seconds), the time of its last update and the outcome of its last probe
Twin(level) == [level |-> level, last |-> 0, admitted |-> FALSE, wait |-> 0]
NoTwin == Twin(0)

\* ------------------------------------------------------------------ actions
Init ==
    /\ now = 0
    /\ config = NoConfig
    /\ bucket = NoBucket
    /\ bucket_level = 0
    /\ last_leak = 0
    /\ locked = FALSE
    /\ waiters = <<>>
    /\ fut = [t \in Tasks |-> "none"]
    /\ pc = [t \in Tasks |-> "idle"]
    /\ amt = [t \in Tasks |-> 0]
    /\ deadline = [t \in Tasks |-> NoDeadline]
    /\ wake_at = [t \in Tasks |-> 0]
    /\ sem = [t \in Tasks |-> NoSem]
    /\ cancelling = [t \in Tasks |-> "none"]
    /\ committed = [t \in Tasks |-> FALSE]
    /\ event = NoEvent
    /\ order = <<>>
    /\ overtaken = {}
    /\ script = <<>>
    /\ history = <<>>
    /\ sleeps = <<>>
    /\ tat = 0
    /\ body = <<>>
    /\ twin_token = NoTwin
    /\ twin_leaky = NoTwin

\* time.monotonic() advances; its origin is the construction of the bucket
Tick ==
    /\ now < MaxTime
    /\ bucket.cls # "none"
    /\ now' = now + 1
    /\ event' = NoEvent
    /\ UNCHANGED <<config, bucket_vars, lock_vars, task_vars, caller_vars>>

\* cls(capacity=c, seconds=s): the dataclass __init__ and its __post_init__
NewConfig(cls, c, s) ==
    /\ config.cls = "none"
    /\ config' = [cls |-> cls, capacity |-> c, seconds |-> s,
                  error |-> post_init(cls, c, s)]
    /\ event' = NoEvent
    /\ UNCHANGED <<now, bucket_vars, lock_vars, task_vars, caller_vars>>

\* SyncLeakyBucket.__init__ / SyncTokenBucket.__init__ / AsyncLeakyBucket.__init__
NewBucket(bcls, mc) ==
    /\ bucket.cls = "none"
    /\ config.cls = ConfigOf(bcls)
    /\ config.error = "none"
    /\ bcls # "AsyncLeakyBucket" => mc = NoMaxConcurrent
    /\ bucket' = [cls |-> bcls, capacity |-> config.capacity,
                  seconds |-> config.seconds, max_concurrent |-> mc]
    /\ bucket_level' = IF bcls = "SyncTokenBucket"
                       THEN config.capacity * config.seconds ELSE 0
    /\ last_leak' = now
    /\ event' = NoEvent
    /\ UNCHANGED <<now, config, lock_vars, task_vars, caller_vars>>

\* capacity_info(amount), called from outside acquire
CapacityInfoCall(a) ==
    /\ bucket.cls # "none"
    /\ IsAsync \/ pc[1] = "idle"
    /\ bucket_level' = Updated(bucket_level, now - last_leak)
    /\ last_leak' = now
    /\ event' = NoEvent
    /\ UNCHANGED <<now, config, bucket, lock_vars, task_vars, caller_vars>>

\* the callers submitted before t that still wait
Ahead(t) ==
    {order[i] : i \in {j \in 1..Len(order) : \A h \in 1..j : order[h] # t}}

\* One pass of the body of acquire / _acquire_logic from capacity_info() on, by
\* caller t with amount a: to the commit and the return, or to the sleep.  dl and
\* sv are the call's deadline and semaphore value; ws and fs are the lock's queue
\* without t.
CriticalSection(t, a, dl, sv, ws, fs) ==
    LET lvl == Updated(bucket_level, now - last_leak)
        info == capacity_info(lvl, DefaultAmount)
    IN  /\ last_leak' = now
        /\ waiters' = ws
        /\ IF info.has_capacity
           THEN /\ bucket_level' = Commit(lvl, a)
                /\ locked' = FALSE
                /\ fut' = IF IsAsync THEN WakeUpFirst(ws, fs) ELSE fs
                /\ pc' = [pc EXCEPT ![t] = "idle"]
                /\ amt' = [amt EXCEPT ![t] = 0]
                /\ deadline' = [deadline EXCEPT ![t] = NoDeadline]
                /\ wake_at' = [wake_at EXCEPT ![t] = 0]
                /\ sem' = [sem EXCEPT ![t] = NoSem]
                /\ committed' = [committed EXCEPT ![t] = FALSE]
                /\ event' = Ended(t, a, "ok", TRUE)
                /\ order' = Remove(order, t)
                /\ overtaken' = overtaken \cup Ahead(t)
           ELSE /\ bucket_level' = LevelWhileWaiting(lvl, a)
                /\ committed' = [committed EXCEPT ![t] =
                       committed[t] \/ bucket_level' # lvl]
                /\ locked' = IsAsync
                /\ fut' = fs
                /\ pc' = [pc EXCEPT ![t] = "sleeping"]
                /\ amt' = [amt EXCEPT ![t] = a]
                /\ deadline' = [deadline EXCEPT ![t] = dl]
                /\ wake_at' = [wake_at EXCEPT ![t] =
                       IF info.needed_capacity > 0
                       THEN now + WaitTicks(info.needed_capacity) ELSE now]
                /\ sem' = [sem EXCEPT ![t] = sv]
                /\ event' = NoEvent
                /\ order' = IF \E i \in 1..Len(order) : order[i] = t
                            THEN order ELSE Append(order, t)
                /\ UNCHANGED overtaken

\* Lock.acquire suspends: the call's future joins the lock's queue
LockWait(t, a, dl, sv) ==
    /\ waiters' = Append(waiters, t)
    /\ fut' = [fut EXCEPT ![t] = "pending"]
    /\ pc' = [pc EXCEPT ![t] = "lock_wait"]
    /\ amt' = [amt EXCEPT ![t] = a]
    /\ deadline' = [deadline EXCEPT ![t] = dl]
    /\ sem' = [sem EXCEPT ![t] = sv]
    /\ event' = NoEvent
    /\ order' = Append(order, t)
    /\ UNCHANGED <<bucket_level, last_leak, locked, wake_at, committed, overtaken>>

\* acquire(amount, timeout) up to its first suspension
acquire(t, a, to) ==
    /\ bucket.cls # "none"
    /\ pc[t] = "idle"
    /\ IsAsync \/ (t = 1 /\ to = NoTimeout)
    /\ UNCHANGED <<now, config, bucket, cancelling>>
    /\ IF ExceedsCapacity(a)
       THEN /\ event' = Ended(t, a, "ValueError", FALSE)
            /\ UNCHANGED <<bucket_level, last_leak, lock_vars, pc, amt, deadline,
                           wake_at, sem, committed, order, overtaken>>
       ELSE LET dl == Deadline(now, to)
            IN  IF IsAsync /\ ~LockFree
                THEN LockWait(t, a, dl, SemaphoreEntered)
                ELSE CriticalSection(t, a, dl,
                         IF IsAsync THEN SemaphoreEntered ELSE NoSem,
                         waiters, fut)

\* the caller's sleep ends: capacity_info() again
Wake(t) ==
    /\ pc[t] = "sleeping"
    /\ cancelling[t] = "none"
    /\ now >= wake_at[t]
    /\ CriticalSection(t, amt[t], deadline[t], sem[t], waiters, fut)
    /\ UNCHANGED <<now, config, bucket, cancelling>>

\* Lock.acquire resumes after its future was set: the lock is taken
LockAcquired(t) ==
    /\ pc[t] = "lock_wait"
    /\ fut[t] = "done"
    /\ cancelling[t] = "none"
    /\ CriticalSection(t, amt[t], deadline[t], sem[t],
                       Remove(waiters, t), [fut EXCEPT ![t] = "none"])
    /\ UNCHANGED <<now, config, bucket, cancelling, caller_vars>>

\* Task.cancel(): a pending future the task waits on is cancelled at once; the
\* call no longer waits for admission
RequestCancel(t, why) ==
    /\ IsAsync
    /\ pc[t] \in {"lock_wait", "sleeping"}
    /\ cancelling[t] = "none"
    /\ cancelling' = [cancelling EXCEPT ![t] = why]
    /\ fut' = IF pc[t] = "lock_wait" /\ fut[t] = "pending"
              THEN [fut EXCEPT ![t] = "cancelled"] ELSE fut
    /\ order' = Remove(order, t)
    /\ event' = NoEvent
    /\ UNCHANGED <<now, config, bucket_vars, locked, waiters, pc, amt, deadline,
                   wake_at, sem, committed, overtaken>>

\* the timeout of asyncio.wait_for expires
TimeoutFires(t) ==
    /\ deadline[t] # NoDeadline
    /\ now >= deadline[t]
    /\ RequestCancel(t, "timeout")

\* the task awaiting acquire is cancelled from outside
Cancel(t) == RequestCancel(t, "cancel")

\* a lock that stays as it is when the call is cancelled
LockKeptOnExit(t) == locked

\* `async with self._lock` is left by an exception: the holder releases the lock,
\* a caller still queued for it does not touch it
LockOnExit(t) == IF pc[t] = "sleeping" THEN FALSE ELSE locked

\* CancelledError is raised at the await: Lock.acquire's handlers or the exit of
\* `async with self._lock`, the exit of `async with semaphore`, then wait_for
Cancelled(t) ==
    /\ cancelling[t] # "none"
    /\ LET ws == IF pc[t] = "lock_wait" THEN Remove(waiters, t) ELSE waiters
           fs == [fut EXCEPT ![t] = "none"]
           lk == LockOnExit(t)
       IN  /\ waiters' = ws
           /\ locked' = lk
           /\ fut' = IF lk THEN fs ELSE WakeUpFirst(ws, fs)
    /\ event' = Ended(t, amt[t],
           IF cancelling[t] = "timeout" THEN "TimeoutError" ELSE "CancelledError",
           committed[t])
    /\ committed' = [committed EXCEPT ![t] = FALSE]
    /\ cancelling' = [cancelling EXCEPT ![t] = "none"]
    /\ pc' = [pc EXCEPT ![t] = "idle"]
    /\ amt' = [amt EXCEPT ![t] = 0]
    /\ deadline' = [deadline EXCEPT ![t] = NoDeadline]
    /\ wake_at' = [wake_at EXCEPT ![t] = 0]
    /\ sem' = [sem EXCEPT ![t] = NoSem]
    /\ UNCHANGED <<now, config, bucket_vars, order, overtaken>>

NextWith(amounts) ==
    \/ Tick
    \/ \E cls \in ConfigClasses, c \in ConfigCapacities, s \in ConfigSeconds :
           NewConfig(cls, c, s)
    \/ \E bcls \in BucketClasses, mc \in MaxConcurrents : NewBucket(bcls, mc)
    \/ \E a \in ProbeAmounts : CapacityInfoCall(a)
    \/ \E t \in Tasks, a \in amounts, to \in Timeouts :
           acquire(t, a, to) /\ UNCHANGED caller_vars
    \/ \E t \in Tasks : Wake(t) /\ UNCHANGED caller_vars
    \/ \E t \in Tasks : LockAcquired(t)
    \/ \E t \in Tasks : TimeoutFires(t) /\ UNCHANGED caller_vars
    \/ \E t \in Tasks : Cancel(t) /\ UNCHANGED caller_vars
    \/ \E t \in Tasks : Cancelled(t) /\ UNCHANGED caller_vars

Next == NextWith(Amounts)

Spec == Init /\ [][Next]_vars

\* the callers keep to amount >= 0
NextNonNegative == NextWith(ProbeAmounts)

SpecNonNegative == Init /\ [][NextNonNegative]_vars

\* -------------------------------------------------------- a sequential caller
\* One caller issues the requests of a script one after the other, each as soon
\* as the one before has returned or raised, as the tests and the example do.
\* Nothing else runs: time passes only while the caller sleeps, and a timer
\* (the end of the sleep, the timeout) fires when it is due.

\* acquire(a, timeout=to); a scoped request (`async with bucket`, a call of a
\* function wrapped by rate_limit / async_rate_limit) names neither
Request(a, to) == [amount |-> a, timeout |-> to, scoped |-> FALSE]
Scoped == [amount |-> 0, timeout |-> NoTimeout, scoped |-> TRUE]

Repeat(n, r) == [i \in 1..n |-> r]

\* test_acquire_amount_multiple_same: capacity=2, seconds=0.2, a tick is 0.1 s
SameAmounts ==
    [capacity |-> 2, seconds |-> 2, requests |-> Repeat(6, Request(1, NoTimeout))]

\* test_acquire_variable_amount_multiple: capacity=2, seconds=0.2, a tick is 0.1 s
VariableAmounts ==
    [capacity |-> 2, seconds |-> 2,
     requests |-> [i \in 1..6 |-> Request(IF i % 2 = 1 THEN 1 ELSE 2, NoTimeout)]]

\* uneven_timeout: capacity=2, seconds=2, a tick is 0.5 s
UnevenTimeout ==
    [capacity |-> 2, seconds |-> 4,
     requests |-> <<Request(2, 2), Request(2, 2), Request(1, 3),
                    Request(2, 4), Request(2, 1), Request(1, 4)>>]

\* test_async_timeout_error: capacity=2, seconds=0.2, a tick is 0.05 s; the
\* timeout is shorter than the wait of 0.1 s
AsyncTimeoutError ==
    [capacity |-> 2, seconds |-> 4,
     requests |-> <<Request(1, NoTimeout), Request(1, NoTimeout), Request(1, 1)>>]

\* test_async_timeout_good: capacity=2, seconds=0.2, a tick is 0.05 s;
\* timeout=0.2
AsyncTimeoutGood ==
    [capacity |-> 2, seconds |-> 4,
     requests |-> <<Request(1, NoTimeout), Request(1, NoTimeout), Request(1, 4)>>]

\* test_context_manager_calls_acquire / test_decorator_calls_acquire:
\* capacity=2, seconds=0.2, a tick is 0.1 s
ContextManager == [capacity |-> 2, seconds |-> 2, requests |-> Repeat(6, Scoped)]

\* every short sequence of requests on every valid configuration
Requests ==
    {Request(a, to) : a \in 0..MaxCapacity, to \in Timeouts} \cup {Scoped}
AnyRequests ==
    {[capacity |-> c, seconds |-> MaxSeconds, requests |-> rs] :
        c \in 1..MaxCapacity,
        rs \in UNION {[1..n -> Requests] : n \in 1..MaxRequests}}

Scenarios ==
    {SameAmounts, VariableAmounts, UnevenTimeout, AsyncTimeoutError, AsyncTimeoutGood,
     ContextManager} \cup AnyRequests

\* GCRA, the leaky-bucket-equivalent variant: the cursor TAT is stored times
\* the capacity, so that amount * I = amount * seconds / capacity is the
\* integer amount * seconds and L = capacity * I is Cap
gcra_admitted(cursor, t) == t * bucket.capacity >= cursor - Cap
gcra_commit(cursor, t, amount) == Max(cursor, t * bucket.capacity) + Scaled(amount)

\* __aenter__ / __enter__: await self.acquire()
aenter(t) == acquire(t, DefaultAmount, NoTimeout)

\* a level that is given back what was acquired when the scope is left
LevelReleasedOnExit(level) == level - Scaled(DefaultAmount)

\* __aexit__ / __exit__: return None
LevelOnExit(level) == level

\* the caller is inside the scope its last request entered
InScope ==
    /\ history # <<>>
    /\ history[Len(history)].request.scoped
    /\ history[Len(history)].result = "ok"
    /\ IF body = <<>> THEN TRUE ELSE body[Len(body)] # Len(history)

\* One pass of SyncTokenBucket.acquire / SyncLeakyBucket.acquire with amount a
\* on the twin tw, from capacity_info() to the commit or to time.sleep
sync_acquire(token, tw, a) ==
    LET lvl == IF token THEN fill(tw.level, now - tw.last)
               ELSE leak(tw.level, now - tw.last)
        needed == IF token THEN token_needed(lvl, DefaultAmount)
                  ELSE leaky_needed(lvl, DefaultAmount)
    IN  IF needed <= 0
        THEN [level |-> IF token THEN lvl - Scaled(a) ELSE lvl + Scaled(a),
              last |-> now, admitted |-> TRUE, wait |-> 0]
        ELSE [level |-> lvl, last |-> now, admitted |-> FALSE,
              wait |-> WaitTicks(needed)]

\* the step starts a sleep of the caller
SleepStarted ==
    /\ pc'[1] = "sleeping"
    /\ (pc[1] # "sleeping" \/ wake_at'[1] # wake_at[1])

\* the step makes a probe of the call in progress, for the call's amount
Probing == event'.result = "ok" \/ SleepStarted
ProbedAmount == IF event'.result = "ok" THEN event'.amount ELSE amt'[1]

\* what the caller and the sleep spy record of a step of the call in progress
Observe ==
    LET cur == IF SleepStarted THEN Append(sleeps, wake_at'[1] - now) ELSE sleeps
    IN  /\ IF event'.result # "none"
           THEN /\ history' = Append(history,
                       [request |-> Head(script), amount |-> event'.amount,
                        result |-> event'.result, sleeps |-> cur, at |-> now])
                /\ sleeps' = <<>>
                /\ script' = Tail(script)
           ELSE /\ sleeps' = cur
                /\ UNCHANGED <<history, script>>
        /\ tat' = IF event'.result = "ok"
                  THEN gcra_commit(tat, now, event'.amount) ELSE tat
        /\ twin_token' = IF Probing
                         THEN sync_acquire(TRUE, twin_token, ProbedAmount)
                         ELSE twin_token
        /\ twin_leaky' = IF Probing
                         THEN sync_acquire(FALSE, twin_leaky, ProbedAmount)
                         ELSE twin_leaky
        /\ UNCHANGED body

InitSequential ==
    \E sc \in Scenarios, bcls \in BucketClasses :
        /\ bcls # "AsyncLeakyBucket" =>
               \A i \in 1..Len(sc.requests) : sc.requests[i].timeout = NoTimeout
        /\ now = 0
        /\ config = [cls |-> ConfigOf(bcls), capacity |-> sc.capacity,
                     seconds |-> sc.seconds, error |-> "none"]
        /\ bucket = [cls |-> bcls, capacity |-> sc.capacity,
                     seconds |-> sc.seconds, max_concurrent |-> NoMaxConcurrent]
        /\ bucket_level = IF bcls = "SyncTokenBucket"
                          THEN sc.capacity * sc.seconds ELSE 0
        /\ last_leak = 0
        /\ locked = FALSE
        /\ waiters = <<>>
        /\ fut = [t \in Tasks |-> "none"]
        /\ pc = [t \in Tasks |-> "idle"]
        /\ amt = [t \in Tasks |-> 0]
        /\ deadline = [t \in Tasks |-> NoDeadline]
        /\ wake_at = [t \in Tasks |-> 0]
        /\ sem = [t \in Tasks |-> NoSem]
        /\ cancelling = [t \in Tasks |-> "none"]
        /\ committed = [t \in Tasks |-> FALSE]
        /\ event = NoEvent
        /\ order = <<>>
        /\ overtaken = {}
        /\ script = sc.requests
        /\ history = <<>>
        /\ sleeps = <<>>
        /\ tat = 0
        /\ body = <<>>
        /\ twin_token = Twin(sc.capacity * sc.seconds)
        /\ twin_leaky = Twin(0)

\* the caller issues its next request
Submit ==
    /\ script # <<>>
    /\ pc[1] = "idle"
    /\ ~InScope
    /\ IF Head(script).scoped
       THEN aenter(1)
       ELSE acquire(1, Head(script).amount, Head(script).timeout)
    /\ Observe

\* the caller's sleep ends when it is due
Resume == Wake(1) /\ Observe

\* the timeout of the call fires when it is due
Expire == TimeoutFires(1) /\ Observe

\* the call raises TimeoutError
Raise == Cancelled(1) /\ Observe

\* the body of the scope runs and the scope is left
aexit ==
    /\ InScope
    /\ body' = Append(body, Len(history))
    /\ bucket_level' = LevelOnExit(bucket_level)
    /\ event' = NoEvent
    /\ UNCHANGED <<now, config, bucket, last_leak, lock_vars, task_vars,
                   script, history, sleeps, tat, twin_token, twin_leaky>>

\* time passes while the caller sleeps, up to the next timer that is due
SequentialTick ==
    /\ pc[1] = "sleeping"
    /\ cancelling[1] = "none"
    /\ now < wake_at[1]
    /\ deadline[1] = NoDeadline \/ now < deadline[1]
    /\ now' = now + 1
    /\ event' = NoEvent
    /\ UNCHANGED <<config, bucket_vars, lock_vars, task_vars, caller_vars>>

NextSequential ==
    \/ Submit
    \/ Resume
    \/ Expire
    \/ Raise
    \/ aexit
    \/ SequentialTick

SpecSequential == InitSequential /\ [][NextSequential]_vars

\* ------------------------------------------------------------------ threads
\* The blocking buckets called from several threads.  Neither class holds a
\* lock: a thread can be switched out after capacity_info() has returned and
\* before `self._bucket_level += amount`, and time.sleep releases the
\* interpreter to the other threads.
SyncClasses == {"SyncLeakyBucket", "SyncTokenBucket"}

\* the thread's capacity_info() in acquire: to the decision to commit, or to
\* time.sleep(wait_time)
ThreadDecide(t, a) ==
    LET lvl == Updated(bucket_level, now - last_leak)
        info == capacity_info(lvl, DefaultAmount)
    IN  /\ bucket_level' = lvl
        /\ last_leak' = now
        /\ amt' = [amt EXCEPT ![t] = a]
        /\ IF info.has_capacity
           THEN /\ pc' = [pc EXCEPT ![t] = "admitted"]
                /\ UNCHANGED wake_at
           ELSE /\ pc' = [pc EXCEPT ![t] = "sleeping"]
                /\ wake_at' = [wake_at EXCEPT ![t] =
                       now + WaitTicks(info.needed_capacity)]
        /\ event' = NoEvent

\* SyncLeakyBucket.acquire / SyncTokenBucket.acquire called by thread t, up to
\* the return of its first capacity_info()
ThreadAcquire(t, a) ==
    /\ bucket.cls \in SyncClasses
    /\ pc[t] = "idle"
    /\ IF ExceedsCapacity(a)
       THEN /\ event' = Ended(t, a, "ValueError", FALSE)
            /\ UNCHANGED <<bucket_level, last_leak, pc, amt, wake_at>>
       ELSE ThreadDecide(t, a)
    /\ UNCHANGED <<now, config, bucket, lock_vars, deadline, sem, cancelling,
                   committed, order, overtaken, caller_vars>>

\* time.sleep returns in thread t: capacity_info() again
ThreadWake(t) ==
    /\ bucket.cls \in SyncClasses
    /\ pc[t] = "sleeping"
    /\ now >= wake_at[t]
    /\ ThreadDecide(t, amt[t])
    /\ UNCHANGED <<now, config, bucket, lock_vars, deadline, sem, cancelling,
                   committed, order, overtaken, caller_vars>>

\* self._bucket_level += amount (-= amount) in thread t, and the return
ThreadCommit(t) ==
    /\ bucket.cls \in SyncClasses
    /\ pc[t] = "admitted"
    /\ bucket_level' = Commit(bucket_level, amt[t])
    /\ pc' = [pc EXCEPT ![t] = "idle"]
    /\ amt' = [amt EXCEPT ![t] = 0]
    /\ event' = Ended(t, amt[t], "ok", TRUE)
    /\ UNCHANGED <<now, config, bucket, last_leak, lock_vars, deadline, wake_at,
                   sem, cancelling, committed, order, overtaken, caller_vars>>

NextThreads ==
    \/ Tick
    \/ \E cls \in ConfigClasses, c \in ConfigCapacities, s \in ConfigSeconds :
           NewConfig(cls, c, s)
    \/ \E bcls \in SyncClasses : NewBucket(bcls, NoMaxConcurrent)
    \/ \E t \in Tasks, a \in ProbeAmounts : ThreadAcquire(t, a)
    \/ \E t \in Tasks : ThreadWake(t)
    \/ \E t \in Tasks : ThreadCommit(t)

SpecThreads == Init /\ [][NextThreads]_vars

\* ------------------------------------------------------------------- claims
IsLeaky == bucket.cls \in {"SyncLeakyBucket", "AsyncLeakyBucket"}
Inside == {t \in Tasks : pc[t] # "idle"}
Sleeping == {t \in Tasks : pc[t] = "sleeping"}
Queued == {waiters[i] : i \in 1..Len(waiters)}

\* C1: on a leaky bucket driven by capacity_info and acquire(amount) calls with
\* 0 <= amount <= capacity, the stored level stays within [0, capacity].
C1_LeakyLevelWithinCapacity ==
    IsLeaky => (0 <= bucket_level /\ bucket_level <= Cap)

\* C2: on the token bucket driven by capacity_info and acquire(amount) calls with
\* 0 <= amount <= capacity, the stored token level stays within [0, capacity]: an
\* admitted acquire never takes more tokens than there are.
C2_TokenLevelWithinCapacity ==
    IsToken => (0 <= bucket_level /\ bucket_level <= Cap)

\* C3: on the async leaky bucket at most one caller is between its first probe
\* and its commit, and it holds the lock throughout, also while it sleeps; the
\* callers queued for the lock have not probed.
C3_ProbeDecideCommitAtomic ==
    IsAsync =>
        /\ Cardinality(Sleeping) <= 1
        /\ \A t \in Sleeping : locked /\ t \notin Queued
        /\ \A t \in Inside \ Sleeping : t \in Queued

C3_Witness ==
    /\ IsAsync
    /\ \E t, u \in Tasks : pc[t] = "sleeping" /\ pc[u] = "lock_wait"

\* C4: the async leaky bucket admits its callers in the order in which they called
\* acquire: no call commits while a call submitted before it still waits.
C4_FifoAdmission == IsAsync => overtaken = {}

C4_Witness ==
    /\ IsAsync
    /\ event.result = "ok"
    /\ \E u \in Tasks : u # event.task /\ pc[u] = "lock_wait" /\ fut[u] = "done"

\* C5: with max_concurrent = k at most k callers are inside the acquire path
\* (queued for the lock, holding it or sleeping) at any moment.
C5_BoundedWaiters ==
    (IsAsync /\ bucket.max_concurrent # NoMaxConcurrent) =>
        Cardinality(Inside) <= bucket.max_concurrent

\* C6: a call that raises TimeoutError has not added its amount to the level, and
\* the step that raises it leaves the level and the time of the last leak as
\* they were.
C6_TimeoutLeavesNoResidue ==
    /\ [](event.result = "TimeoutError" => ~event.committed)
    /\ [][event'.result = "TimeoutError" =>
            (bucket_level' = bucket_level /\ last_leak' = last_leak)]_vars

C6_Witness ==
    /\ event.result = "TimeoutError"
    /\ event.amount > 0
    /\ bucket_level > 0

\* the effect on the other callers of the step that ends caller t's call by a
\* timeout or a cancellation: none but the hand-over of the lock
OthersUntouched(t) ==
    \A u \in Tasks \ {t} :
        /\ pc'[u] = pc[u]
        /\ cancelling'[u] = cancelling[u]
        /\ amt'[u] = amt[u]
        /\ deadline'[u] = deadline[u]
        /\ fut'[u] \in {fut[u], "done"}

\* C7: a timeout or a cancellation of one call leaks neither the lock nor a
\* semaphore and touches no other caller: the lock is held only by a caller
\* inside its retry loop, a caller that is not in a call holds nothing, the first
\* caller queued for a free lock has been woken or cancelled, and the step that
\* ends the call leaves the other callers queued.
C7_CancelLeaksNothing ==
    /\ [](IsAsync =>
            /\ locked => Sleeping # {}
            /\ \A t \in Tasks \ Inside :
                   /\ t \notin Queued
                   /\ fut[t] = "none"
                   /\ sem[t] = NoSem
                   /\ cancelling[t] = "none"
            /\ (~locked /\ waiters # <<>>) => fut[Head(waiters)] # "pending")
    /\ [][event'.result \in {"TimeoutError", "CancelledError"} =>
            OthersUntouched(event'.task)]_vars

C7_Witness ==
    /\ event.result \in {"TimeoutError", "CancelledError"}
    /\ ~locked
    /\ \E u \in Tasks : pc[u] = "lock_wait" /\ fut[u] = "done"

\* C8: acquire(amount) with amount > capacity raises ValueError on every bucket
\* class and does nothing else: no call with such an amount is ever suspended or
\* ends otherwise, and the step that raises leaves the level, the time of the
\* last leak, the lock, the semaphores and every caller as they were.
C8_ExcessAmountRejected ==
    /\ [](/\ event.amount > bucket.capacity =>
                (event.result = "ValueError" /\ ~event.committed)
          /\ \A t \in Inside : amt[t] <= bucket.capacity)
    /\ [][event'.result = "ValueError" =>
            UNCHANGED <<bucket_vars, lock_vars, task_vars>>]_vars

C8_Witness ==
    /\ event.result = "ValueError"
    /\ event.amount > bucket.capacity
    /\ locked

\* C9: acquire(amount) with amount < 0 raises ValueError on every bucket class:
\* no call with a negative amount is suspended, commits or ends otherwise.
C9_NegativeAmountRejected ==
    /\ event.amount < 0 => (event.result = "ValueError" /\ ~event.committed)
    /\ \A t \in Inside : amt[t] >= 0

\* C10: constructing a configuration with capacity < 1 or seconds <= 0 raises
\* ValueError; no bucket has such a configuration, and a configuration that was
\* constructed has capacity / seconds > 0.
C10_InvalidConfigRejected ==
    /\ (config.cls # "none" /\ (config.capacity < 1 \/ config.seconds <= 0)) =>
           config.error = "ValueError"
    /\ (config.cls # "none" /\ config.error = "none") =>
           (config.seconds # 0 /\ RateSign(config.capacity, config.seconds) > 0)
    /\ bucket.cls # "none" => (bucket.capacity >= 1 /\ bucket.seconds > 0)

\* the level the next probe would observe
Effective == Updated(bucket_level, now - last_leak)

\* what capacity_info(a) returns on a bucket of capacity C that has just been
\* constructed: needed_capacity = a - C, has_capacity exactly when a <= C
FreshProbe(a) ==
    LET info == capacity_info(Effective, a)
    IN  /\ info.needed_capacity = Scaled(a) - Cap
        /\ info.has_capacity = (a <= bucket.capacity)

\* C15: on a bucket of capacity C probed at the instant of its construction,
\* capacity_info(amount) returns needed_capacity = amount - C and has_capacity
\* exactly when amount <= C, on the leaky buckets (level 0) and on the token
\* bucket (level C) alike.
C15_FreshProbe ==
    [][(bucket.cls = "none" /\ bucket'.cls # "none") =>
            \A a \in ProbeAmounts : FreshProbe(a)']_vars

C15_Witness ==
    /\ IsToken
    /\ bucket_level = Cap
    /\ last_leak = now
    /\ event = NoEvent
    /\ \A t \in Tasks : pc[t] = "idle"

\* a step that updates the level to the present and moves no caller
ProbeOnly ==
    /\ bucket.cls # "none"
    /\ now' = now
    /\ last_leak' = now
    /\ pc' = pc
    /\ event' = NoEvent

\* C17: a capacity_info call changes neither the level the next probe observes
\* nor, so, the outcome of a probe for any amount at the same instant, and adds
\* no amount; as time passes the observed level is the one a single update over
\* the whole elapsed time gives, however many probes were made in between.
\* (ProbeOnly is the step of a capacity_info call made outside acquire.)
C17_ProbeIdempotent ==
    /\ [][ProbeOnly =>
            /\ Effective' = Effective
            /\ \A b \in ProbeAmounts :
                   capacity_info(Effective, b)' = capacity_info(Effective, b)]_vars
    /\ [][now' # now => Effective' = Updated(Effective, now' - now)]_vars

C17_Witness ==
    /\ bucket.cls # "none"
    /\ event = NoEvent
    /\ last_leak = now
    /\ now > 1
    /\ 0 < bucket_level
    /\ bucket_level < Cap
    /\ \A t \in Tasks : pc[t] = "idle"

\* the threads between a capacity_info() of their acquire and its commit
Deciding == {t \in Tasks : pc[t] \in {"admitted", "sleeping"}}

\* C18: on the blocking buckets called from several threads, at most one thread
\* at a time is between the probe of its acquire and its commit, so no two
\* threads are admitted on the same observed level.
C18_ThreadsSerialized ==
    bucket.cls \in SyncClasses => Cardinality(Deciding) <= 1

\* the sequential caller has issued all the requests of scenario sc
Done(sc) ==
    /\ script = <<>>
    /\ bucket.capacity = sc.capacity
    /\ bucket.seconds = sc.seconds
    /\ Len(history) = Len(sc.requests)
    /\ \A i \in 1..Len(history) : history[i].request = sc.requests[i]

Results == [i \in 1..Len(history) |-> history[i].result]
SleepsOfCalls == [i \in 1..Len(history) |-> history[i].sleeps]

\* C11: a denied acquire(amount) sleeps deficit / rate, the deficit being that
\* of the requested amount; with capacity 2 and a period of two ticks the
\* amounts 1, 2, 1, 2, 1, 2 sleep five times: 1, 1, 2, 1 and 2 ticks.
C11_SleepIsDeficitOverRate ==
    /\ [][SleepStarted =>
            wake_at'[1] - now = WaitTicks(Needed(bucket_level', amt'[1]))]_vars
    /\ [](Done(VariableAmounts) =>
            SleepsOfCalls = <<<<>>, <<1>>, <<1>>, <<2>>, <<1>>, <<2>>>>)

\* C12: with capacity 2 and a period of two ticks six acquire(1) calls in a row
\* all succeed, the first two without a sleep and each of the other four after
\* one sleep of one tick (period / capacity).
C12_SixCallsFourSleeps ==
    Done(SameAmounts) =>
        /\ Results = Repeat(6, "ok")
        /\ SleepsOfCalls = <<<<>>, <<>>, <<1>>, <<1>>, <<1>>, <<1>>>>

C12_Witness == Done(SameAmounts) /\ IsAsync

\* C13: on an AsyncLeakyBucket with capacity 2 and a period of 2 s the requests
\* (2, 1 s), (2, 1 s), (1, 1.5 s), (2, 2 s), (2, 0.5 s), (1, 2 s) end admitted,
\* timed out, admitted, admitted, timed out, admitted.
C13_UnevenTimeoutOutcomes ==
    (IsAsync /\ Done(UnevenTimeout)) =>
        Results = <<"ok", "TimeoutError", "ok", "ok", "TimeoutError", "ok">>

\* C14: an acquire(1, timeout) that has to wait raises TimeoutError when the
\* timeout is shorter than the wait and succeeds when it is longer, after one
\* sleep in both cases; after two acquire(1) on capacity 2 with a period of four
\* ticks the wait is two ticks.
C14_TimeoutAgainstWait ==
    /\ \A i \in 1..Len(history) :
           LET h == history[i]
           IN  (/\ h.request.timeout # NoTimeout
                /\ h.amount = DefaultAmount
                /\ h.sleeps # <<>>) =>
                   /\ h.request.timeout < h.sleeps[1] =>
                          (h.result = "TimeoutError" /\ Len(h.sleeps) = 1)
                   /\ h.request.timeout > h.sleeps[1] =>
                          (h.result = "ok" /\ Len(h.sleeps) = 1)
    /\ Done(AsyncTimeoutError) =>
           (history[3].result = "TimeoutError" /\ history[3].sleeps = <<2>>)
    /\ Done(AsyncTimeoutGood) =>
           (history[3].result = "ok" /\ history[3].sleeps = <<2>>)

C14_Witness ==
    /\ Done(AsyncTimeoutError)
    /\ history[3].result = "TimeoutError"
    /\ bucket_level > 0

\* the amounts of the first k completed calls, added up
RECURSIVE Total(_)
Total(k) == IF k = 0 THEN 0 ELSE Total(k - 1) + history[k].amount

\* the first k calls were made on the fresh bucket, one right after the other
Burst(k) ==
    \A i \in 1..k : history[i].result = "ok" /\ history[i].sleeps = <<>>

\* C16: on a fresh bucket the acquires whose amounts add up to at most the
\* capacity are admitted without a sleep, and the acquire of a positive amount
\* right after them that goes beyond the capacity is not admitted before it has
\* slept.
C16_InitialBurst ==
    \A k \in 1..Len(history) :
        (Burst(k - 1) /\ history[k].amount <= bucket.capacity) =>
            /\ Total(k) <= bucket.capacity =>
                   (history[k].result = "ok" /\ history[k].sleeps = <<>>)
            /\ (Total(k) > bucket.capacity /\ history[k].amount > 0) =>
                   history[k].sleeps # <<>>

\* C19: fed the requests of the sequential caller at the same times, the GCRA
\* engine admits at a probe exactly when the leaky bucket admits.
C19_GcraDecidesAsLeaky ==
    [][(IsLeaky /\ (SleepStarted \/ event'.result = "ok")) =>
            (gcra_admitted(tat, now) <=> event'.result = "ok")]_vars

\* C20: a scoped acquisition is one acquire of amount 1 on the bucket before
\* the body runs; leaving the scope changes nothing of the bucket; the bodies
\* run in the order of the calls.
C20_ScopedAcquisition ==
    /\ [](/\ \A i \in 1..Len(history) :
                 history[i].request.scoped =>
                     (history[i].result = "ok" /\ history[i].amount = DefaultAmount)
          /\ \A j \in 1..Len(body) :
                 /\ body[j] \in 1..Len(history)
                 /\ history[body[j]].request.scoped
                 /\ \A i \in 1..(j - 1) : body[i] < body[j])
    /\ [][(event'.result = "ok" /\ Head(script).scoped) =>
            bucket_level' = Commit(Effective, DefaultAmount)]_vars
    /\ [][body' # body => UNCHANGED <<bucket_vars, lock_vars>>]_vars

C20_Witness == Done(ContextManager) /\ Len(body) = 6 /\ IsAsync

\* ---------------------------------------------------- a clock that goes back
\* The reading of time.monotonic() drops by a tick between two calls.
ClockBack ==
    /\ bucket.cls # "none"
    /\ now > 0
    /\ now' = now - 1
    /\ event' = NoEvent
    /\ UNCHANGED <<config, bucket_vars, lock_vars, task_vars, caller_vars>>

\* the callers acquire the default amount or nothing, without a timeout: the
\* amounts for which the level stays within its bounds while the clock advances
ClockAmounts == {0, DefaultAmount}

NextClock ==
    \/ Tick
    \/ ClockBack
    \/ \E cls \in ConfigClasses, c \in ConfigCapacities, s \in ConfigSeconds :
           NewConfig(cls, c, s)
    \/ \E bcls \in BucketClasses : NewBucket(bcls, NoMaxConcurrent)
    \/ \E a \in ProbeAmounts : CapacityInfoCall(a)
    \/ \E t \in Tasks, a \in ClockAmounts :
           acquire(t, a, NoTimeout) /\ UNCHANGED caller_vars
    \/ \E t \in Tasks : Wake(t) /\ UNCHANGED caller_vars
    \/ \E t \in Tasks : LockAcquired(t)

SpecClock == Init /\ [][NextClock]_vars

\* the step starts a sleep of caller t
SleepStartedBy(t) ==
    /\ pc'[t] = "sleeping"
    /\ (pc[t] # "sleeping" \/ wake_at'[t] # wake_at[t])

\* C21: when the reading of the clock goes backward between two probes, the
\* level of the leaky and of the token bucket still never becomes negative, and
\* no sleep of a negative duration is started.
C21_ClockBackwardSafe ==
    /\ [](bucket_level >= 0)
    /\ [][\A t \in Tasks : SleepStartedBy(t) => wake_at'[t] - now >= 0]_vars

\* ---------------------------------------------------------------- progress
\* Calls without a timeout that nobody cancels.  The calls are submitted up to
\* the reading MaxTime; the clock goes on for as long as a caller sleeps.
Advance ==
    /\ now >= MaxTime
    /\ \E t \in Tasks : pc[t] = "sleeping" /\ now < wake_at[t]
    /\ now' = now + 1
    /\ event' = NoEvent
    /\ UNCHANGED <<config, bucket_vars, lock_vars, task_vars, caller_vars>>

NextLive ==
    \/ Tick
    \/ Advance
    \/ \E cls \in ConfigClasses, c \in ConfigCapacities, s \in ConfigSeconds :
           NewConfig(cls, c, s)
    \/ \E bcls \in BucketClasses, mc \in MaxConcurrents : NewBucket(bcls, mc)
    \/ \E a \in ProbeAmounts : CapacityInfoCall(a)
    \/ \E t \in Tasks, a \in ProbeAmounts :
           now < MaxTime /\ acquire(t, a, NoTimeout) /\ UNCHANGED caller_vars
    \/ \E t \in Tasks : Wake(t) /\ UNCHANGED caller_vars
    \/ \E t \in Tasks : LockAcquired(t)

\* time advances; the event loop (the interpreter) runs a caller whose sleep has
\* ended or whose lock future is set
Fairness ==
    /\ WF_vars(Tick)
    /\ WF_vars(Advance)
    /\ \A t \in Tasks : WF_vars(Wake(t) /\ UNCHANGED caller_vars)
    /\ \A t \in Tasks : WF_vars(LockAcquired(t))

SpecLive == Init /\ [][NextLive]_vars /\ Fairness

\* C22: while time advances, every acquire(amount) without a timeout and with
\* 0 <= amount <= capacity that is suspended, queued for the lock or asleep, is
\* eventually admitted: the single caller of a blocking bucket and every one of
\* the concurrent callers of the async bucket.
C22_EventuallyAdmitted ==
    \A t \in Tasks :
        (pc[t] # "idle") ~> (event.task = t /\ event.result = "ok" /\ pc[t] = "idle")

C22_Witness ==
    /\ IsAsync
    /\ event.result = "ok"
    /\ now > MaxTime
    /\ \E u \in Tasks : pc[u] = "lock_wait"

\* C23: the step that ends an acquire(amount) successfully is the step of the
\* probe that admitted it, and it changes the level the probe observed by
\* exactly the amount (leaky: +amount, token: -amount); every other step, a
\* denied probe of the retry loop and a capacity_info call among them, changes
\* the level by the decay or refill of the elapsed time at most; no call in
\* progress has added its amount.
C23_CommitOnceOnAdmission ==
    /\ [](\A t \in Tasks : ~committed[t])
    /\ [][event'.result = "ok" =>
            /\ event'.committed
            /\ last_leak' = now
            /\ bucket_level' = IF IsToken
                               THEN Effective - Scaled(event'.amount)
                               ELSE Effective + Scaled(event'.amount)]_vars
    /\ [][(bucket.cls # "none" /\ event'.result # "ok") =>
            bucket_level' \in {bucket_level, Effective}]_vars

C23_Witness ==
    /\ event.result = "ok"
    /\ event.amount > DefaultAmount
    /\ IsToken
    /\ now > 0
    /\ bucket_level < Cap

\* C24: in the retry loop of acquire, blocking and async, a wait is computed
\* only after a denial, from a needed capacity that is strictly positive, and it
\* is strictly positive: no sleep of a zero or negative duration is started.
C24_WaitStrictlyPositive ==
    [][\A t \in Tasks : SleepStartedBy(t) =>
            /\ ~capacity_info(bucket_level', DefaultAmount).has_capacity
            /\ Needed(bucket_level', DefaultAmount) > 0
            /\ wake_at'[t] - now > 0]_vars

C24_Witness ==
    /\ IsToken
    /\ pc[1] = "sleeping"
    /\ wake_at[1] > now + 1
    /\ last_leak = now
    /\ bucket_level < 0

\* C25: an async acquire with a timeout raises TimeoutError only when the call
\* was suspended, queued for the lock or asleep; and a call made while the
\* bucket has capacity for its amount and the lock is free is not suspended: it
\* completes in the step of the call, so it neither sleeps nor times out.
C25_TimeoutOnlyAfterSuspension ==
    /\ [][event'.result = "TimeoutError" =>
            /\ pc[event'.task] \in {"lock_wait", "sleeping"}
            /\ cancelling[event'.task] = "timeout"]_vars
    /\ [][\A t \in Tasks :
            (/\ IsAsync
             /\ pc[t] = "idle"
             /\ pc'[t] # "idle") =>
                ~(LockFree /\ capacity_info(Effective, amt'[t]).has_capacity)]_vars

\* the lock is held, or a caller queued for it has not given up
LockBusy == locked \/ \E i \in 1..Len(waiters) : fut[waiters[i]] # "cancelled"

Idle ==
    /\ pc[1] = "idle"
    /\ script # <<>>
    /\ now < MaxTime
    /\ now' = now + 1
    /\ event' = NoEvent
    /\ UNCHANGED <<config, bucket_vars, lock_vars, task_vars, caller_vars>>

NextPaced ==
    \/ Submit
    \/ Resume
    \/ Expire
    \/ Raise
    \/ aexit
    \/ SequentialTick
    \/ Idle

SpecPaced == InitSequential /\ [][NextPaced]_vars

\* C27: a SyncLeakyBucket and a SyncTokenBucket of the same configuration,
\* given the same acquire calls at the same clock readings, decide alike at
\* every probe and sleep equally long, and at every step the token level is the
\* capacity less the leaky level.
C27_LeakyTokenDuality ==
    bucket.cls = "SyncLeakyBucket" =>
        /\ twin_token.level = Cap - bucket_level
        /\ twin_token.last = last_leak
        /\ event.result = "ok" => twin_token.admitted
        /\ pc[1] = "sleeping" =>
               (~twin_token.admitted /\ twin_token.wait = wake_at[1] - last_leak)

C27_Witness ==
    /\ bucket.cls = "SyncLeakyBucket"
    /\ pc[1] = "sleeping"
    /\ now > wake_at[1] - last_leak
    /\ bucket_level > Cap
    /\ twin_token.level < 0
    /\ twin_token.wait > 1

\* the amounts admitted by the calls i..j of the sequential caller, added up
RECURSIVE Admitted(_, _)
Admitted(i, j) ==
    IF i > j THEN 0
    ELSE Admitted(i, j - 1) +
         (IF history[j].result = "ok" THEN history[j].amount ELSE 0)

\* C28: on a leaky bucket and for acquire calls with 0 <= amount <= capacity,
\* the amounts admitted within any interval of time add up to at most
\* capacity + rate * (the length of the interval); it is enough to take the
\* intervals that begin and end with an admission.
C28_ThroughputCeiling ==
    IsLeaky =>
        \A i, j \in 1..Len(history) :
            i <= j =>
                Scaled(Admitted(i, j)) <=
                    Cap + bucket.capacity * (history[j].at - history[i].at)

\* the step is the sequential caller's call of acquire(0)
SubmitsZero ==
    /\ pc[1] = "idle"
    /\ script # <<>>
    /\ ~Head(script).scoped
    /\ Head(script).amount = 0
    /\ (pc'[1] # "idle" \/ event'.result # "none")

\* C29: acquire(0) on a bucket whose level is within [0, capacity] is admitted
\* in the step of the call, without a sleep, and leaves the level as the decay
\* or refill of the elapsed time makes it.
C29_ZeroAmountAdmitted ==
    [][(SubmitsZero /\ 0 <= bucket_level /\ bucket_level <= Cap) =>
            /\ event'.result = "ok"
            /\ pc'[1] = "idle"
            /\ bucket_level' = Effective]_vars

\* none of the sequential caller's requests has a timeout
NoTimeouts ==
    /\ \A i \in 1..Len(history) : history[i].request.timeout = NoTimeout
    /\ \A i \in 1..Len(script) : script[i].timeout = NoTimeout

\* C30: under one sequential caller without timeouts and without
\* max_concurrent, the AsyncLeakyBucket admits, sleeps and sets its level as a
\* SyncLeakyBucket of the same configuration given the same calls at the same
\* clock readings; the caller is never queued for the lock, which is free and
\* has no waiter whenever the caller is not in a call.
C30_AsyncAsSyncSequential ==
    (IsAsync /\ NoTimeouts) =>
        /\ twin_leaky.level = bucket_level
        /\ twin_leaky.last = last_leak
        /\ event.result = "ok" => twin_leaky.admitted
        /\ pc[1] = "sleeping" =>
               (~twin_leaky.admitted /\ twin_leaky.wait = wake_at[1] - last_leak)
        /\ pc[1] \in {"idle", "sleeping"}
        /\ pc[1] = "idle" => (~locked /\ waiters = <<>> /\ sem[1] = NoSem)

C30_Witness ==
    /\ IsAsync
    /\ Done(VariableAmounts)
    /\ now > Len(history)
    /\ twin_leaky.admitted
    /\ twin_leaky.level > 0

====
